---- MODULE Spec2Model ----
(***************************************************************************)
(* State-machine model of the live voice session of                        *)
(* src/src/components/VoiceAssistant.tsx: the start/stop life cycle and    *)
(* its audio resources, the inbound message handler (tool-call dispatch    *)
(* and audio scheduling), the visual-context side channel and the timers.  *)
(*                                                                         *)
(* One step of the model is one run-to-completion segment of a JavaScript *)
(* callback: a handler runs atomically up to its next await.  A send that  *)
(* the code queues with sessionPromise.then(...) on the already resolved   *)
(* session promise runs in the microtask checkpoint of the same segment    *)
(* and is part of the step.  The awaits that are modelled as suspension    *)
(* points are getUserMedia (startSession), decodeAudioData (onmessage)     *)
(* and the image load of sendVisualContext.                                *)
(***************************************************************************)
EXTENDS Integers, Sequences, FiniteSets, TLC

\* ------------------------------------------------------------------ bounds
MaxSessions == 2      \* startSession invocations that pass the guards
MaxCalls    == 2      \* tool calls received over a run
MaxChunks   == 2      \* inbound audio payloads over a run
MaxTime     == 1      \* ticks of the output clock
MaxDur      == 2      \* longest decoded buffer, in ticks
MaxImages   == 1      \* length of the image queue
LifeMsgs    == 1      \* inbound messages in the life-cycle specification
MaxStops    == 1      \* stop_speaking calls in the scheduling specification
MaxRestarts == 1      \* startSession invocations in the teardown specification
MaxBatches  == 2      \* completions of processAll
MaxSent     == 3      \* messages on the wire in the announcement specification
MaxFrames   == 3      \* buffers the capture node of one invocation delivers
MaxSamples  == 2      \* samples of an array in the round-trip specification
SampleStride == 4096  \* distance of the grid points of those samples, in units of 1 / Unit

\* --------------------------------------------------------- program constants
VisualBatchMax == 3   \* images.slice(0, 3)

\* the interface languages the component tells apart (currentLanguage === 'hu' or not)
Languages == {"en", "hu"}

\* sample rates of the audio hardware, and the one of the runs that do not vary it
Rates == {16000, 48000}
DefaultRate == 48000

Sess == 1..MaxSessions

Max(a, b) == IF a >= b THEN a ELSE b
Min(a, b) == IF a <= b THEN a ELSE b

\* ---------------------------------------------------------------- variables
VARIABLES
    apiKey,                 \* prop apiKey is non-null
    images,                 \* prop images: length of the queue in the current render
    currentLanguage,        \* prop currentLanguage in the current render
    batchCompleteTrigger,   \* prop batchCompleteTrigger in the current render
    queue,                  \* App: the ids of the images state, in order (images is its length)
    isCompositeModalOpen,   \* App: useState isCompositeModalOpen
    isGeneratingNative,     \* App: useState isGeneratingNative
    pendingNative,          \* App: tempIds of the handleNativeGen runs awaiting their result
    isActive, isConnecting, isExecuting,      \* useState flags
    nStarted,               \* startSession invocations that acquired resources
    pc,                     \* per invocation: position of startSession / state of its transport
    startOutcome,           \* per invocation: settlement of the promise startSession returned
    logged,                 \* invocations whose failure went to console.error
    capImages,              \* per invocation: images.length captured by the closures it created
    capLanguage,            \* per invocation: currentLanguage captured by the same closures
    capQueue,               \* per invocation: images of the handleVoiceCommand it captured
    res,                    \* per invocation: state of each OS / Web Audio resource it acquired
    inputAudioContextRef, audioContextRef, streamRef,
    processorRef, sourceRef, sessionRef,      \* useRef cells: 0 is null, i is "of invocation i"
    now,                    \* audioContext.currentTime
    deviceRate,             \* sampleRate the audio hardware gives a default AudioContext
    frames,                 \* per invocation: buffers its ScriptProcessor has delivered
    inputData,              \* a Float32Array of samples, each held as the integer x * Unit
    pcmBlob,                \* the blob createBlob made of inputData
    channelData,            \* channel 0 of the AudioBuffer decodeAudioData made of the blob
    pcmStage,               \* how far inputData has gone: none, input, encoded, decoded
    nextStartTime,          \* nextStartTimeRef.current
    sources,                \* sourcesRef.current: chunks whose source node is in the set
    isStopped,              \* isStoppedRef.current
    stopTimers,             \* armed setTimeout(() => isStoppedRef.current = false, 2000)
    execTimers,             \* armed setTimeout(() => setIsExecuting(false), 500)
    chunks,                 \* every inbound audio payload and what became of it
    lastEnd,                \* history: end of the last buffer started since nextStartTime was reset
    cancelledEnd,           \* history: nextStartTime as the last stop_speaking flush found it
    calls,                  \* every tool call received
    cmds,                   \* every invocation of onCommand / onApplyAll / onAudit
    sent,                   \* every message sent on a transport, in order
    vtasks,                 \* running sendVisualContext invocations
    tdRun,                  \* history: 0, or the number (capped at 2) of consecutive stopSession runs
    tdTrace,                \* history: the calls the last of those runs made, in order
    explicitStops,          \* history: invocations whose transport was open when the user stopped
    lastMsgHadStop          \* history: the previous inbound message carried a stop_speaking call

uiVars   == <<apiKey, images, currentLanguage, batchCompleteTrigger>>
appVars  == <<queue, isCompositeModalOpen, isGeneratingNative, pendingNative>>
flagVars == <<isActive, isConnecting, isExecuting>>
lifeVars == <<nStarted, pc, startOutcome, logged, capImages, capLanguage, capQueue>>
refVars  == <<inputAudioContextRef, audioContextRef, streamRef, processorRef, sourceRef,
              sessionRef>>
capVars  == <<deviceRate, frames>>
pcmVars  == <<inputData, pcmBlob, channelData, pcmStage>>
playVars == <<nextStartTime, sources, isStopped, stopTimers, chunks, lastEnd, cancelledEnd>>
toolVars == <<calls, cmds, sent, vtasks, execTimers>>
histVars == <<tdRun, tdTrace, explicitStops, lastMsgHadStop>>
vars ==
    <<uiVars, appVars, flagVars, lifeVars, res, refVars, now, capVars, pcmVars,
      playVars, toolVars, histVars>>

\* ------------------------------------------------------------------ PCM16
\* A Float32 sample x in [-1, 1] is held as the integer x * Unit, Unit being twice the
\* Int16 scale: every sample on this grid, every product with 32768 and every quotient by
\* 32768 below is exact in Float32 and in the doubles JavaScript computes with.
Int16Scale == 32768
Unit == 2 * Int16Scale
\* one step of the 16-bit quantization, 1 / 32768, on that grid
QuantStep == Unit \div Int16Scale

\* ToIntegerOrInfinity: truncation towards zero of n / d
Trunc(n, d) == IF n >= 0 THEN n \div d ELSE -((-n) \div d)

\* the store into an Int16Array element: truncate, then modulo 2^16 into -32768..32767
ToInt16(n, d) == ((Trunc(n, d) + Int16Scale) % (2 * Int16Scale)) - Int16Scale

\* line 69: int16[i] = data[i] * 32768; the product of the sample x / Unit with 32768 is
\* the fraction x / QuantStep
FloatToInt16(x) == ToInt16(x, QuantStep)

\* line 36: channelData[i] = dataInt16[i] / 32768.0, which is v * QuantStep / Unit
Int16ToFloat(v) == v * QuantStep

\* line 72: new Uint8Array(int16.buffer), two bytes per element, low byte first
Uint8View(int16) ==
    [b \in 1..(2 * Len(int16)) |->
        LET u == int16[(b + 1) \div 2] % 65536
        IN  IF b % 2 = 1 THEN u % 256 ELSE u \div 256]

\* line 29: new Int16Array(data.buffer) over an even number of bytes
Int16View(bytes) ==
    [k \in 1..(Len(bytes) \div 2) |->
        LET u == bytes[2 * k - 1] + 256 * bytes[2 * k]
        IN  IF u >= Int16Scale THEN u - 65536 ELSE u]

\* lines 54-61: encode, btoa of the bytes: the 6-bit digits of the text and the number of
\* '=' that end it
RECURSIVE Base64Digits(_)
Base64Digits(b) ==
    IF Len(b) = 0 THEN <<>>
    ELSE IF Len(b) = 1 THEN <<b[1] \div 4, (b[1] % 4) * 16>>
    ELSE IF Len(b) = 2
    THEN <<b[1] \div 4, (b[1] % 4) * 16 + b[2] \div 16, (b[2] % 16) * 4>>
    ELSE <<b[1] \div 4, (b[1] % 4) * 16 + b[2] \div 16,
           (b[2] % 16) * 4 + b[3] \div 64, b[3] % 64>>
         \o Base64Digits(SubSeq(b, 4, Len(b)))

Encode(bytes) ==
    [digits |-> Base64Digits(bytes), padding |-> (3 - (Len(bytes) % 3)) % 3]

\* lines 43-51: decode, atob of the text back into bytes
RECURSIVE Base64Bytes(_)
Base64Bytes(d) ==
    IF Len(d) < 2 THEN <<>>
    ELSE IF Len(d) = 2 THEN <<d[1] * 4 + d[2] \div 16>>
    ELSE IF Len(d) = 3
    THEN <<d[1] * 4 + d[2] \div 16, (d[2] % 16) * 16 + d[3] \div 4>>
    ELSE <<d[1] * 4 + d[2] \div 16, (d[2] % 16) * 16 + d[3] \div 4, (d[3] % 4) * 64 + d[4]>>
         \o Base64Bytes(SubSeq(d, 5, Len(d)))

Decode(base64) == Base64Bytes(base64.digits)

\* lines 23-40: decodeAudioData for one channel
DecodeAudioData(data) == [k \in 1..Len(Int16View(data)) |-> Int16ToFloat(Int16View(data)[k])]

\* a blob of the first revision: the samples as below, the rate hardcoded
CreateBlobFixedRate(data, sampleRate) ==
    [data     |-> Encode(Uint8View([k \in 1..Len(data) |-> FloatToInt16(data[k])])),
     mimeType |-> <<"audio/pcm", 16000>>]

\* lines 64-76: createBlob
CreateBlob(data, sampleRate) ==
    [data     |-> Encode(Uint8View([k \in 1..Len(data) |-> FloatToInt16(data[k])])),
     mimeType |-> <<"audio/pcm", sampleRate>>]

\* the blob of an empty array, before any conversion
NoBlob == CreateBlob(<<>>, 0)

\* ------------------------------------------------------------ the image queue
\* the ids of n uploaded images
Uploaded(n) == [k \in 1..n |-> <<"img", k>>]

\* the largest number an uploaded image of q carries
RECURSIVE MaxImg(_)
MaxImg(q) ==
    IF q = <<>> THEN 0
    ELSE IF Head(q)[1] = "img" THEN Max(Head(q)[2], MaxImg(Tail(q))) ELSE MaxImg(Tail(q))

\* uploads at the end of q until it holds n images
RECURSIVE Grown(_, _)
Grown(q, n) == IF Len(q) >= n THEN q ELSE Grown(Append(q, <<"img", MaxImg(q) + 1>>), n)

\* App.tsx line 251: prev.filter(img => img.id !== id)
RECURSIVE Without(_, _)
Without(q, id) ==
    IF q = <<>> THEN <<>>
    ELSE IF Head(q) = id THEN Without(Tail(q), id) ELSE <<Head(q)>> \o Without(Tail(q), id)

\* ---------------------------------------------------------------- resources
NoRes == [inCtx |-> "none", outCtx |-> "none", stream |-> "none",
          source |-> "none", processor |-> "none"]

\* close() / disconnect() / track.stop() on a resource; a second release is kept visible
Release(st) ==
    IF st = "live" THEN "released"
    ELSE IF st = "released" THEN "rereleased"
    ELSE st

\* ------------------------------------------------------------------- init
Idle ==
    /\ apiKey = FALSE
    /\ images = 0
    /\ currentLanguage = "en"
    /\ batchCompleteTrigger = 0
    /\ queue = <<>>
    /\ isCompositeModalOpen = FALSE /\ isGeneratingNative = FALSE /\ pendingNative = {}
    /\ isActive = FALSE /\ isConnecting = FALSE /\ isExecuting = FALSE
    /\ nStarted = 0
    /\ pc = [i \in Sess |-> "none"]
    /\ startOutcome = [i \in Sess |-> "none"]
    /\ logged = {}
    /\ capImages = [i \in Sess |-> 0]
    /\ capLanguage = [i \in Sess |-> "en"]
    /\ capQueue = [i \in Sess |-> <<>>]
    /\ res = [i \in Sess |-> NoRes]
    /\ inputAudioContextRef = 0 /\ audioContextRef = 0 /\ streamRef = 0
    /\ processorRef = 0 /\ sourceRef = 0 /\ sessionRef = 0
    /\ now = 0
    /\ deviceRate = DefaultRate
    /\ frames = [i \in Sess |-> 0]
    /\ nextStartTime = 0
    /\ sources = {}
    /\ isStopped = FALSE
    /\ stopTimers = 0
    /\ execTimers = 0
    /\ chunks = <<>>
    /\ lastEnd = 0
    /\ cancelledEnd = 0
    /\ calls = <<>>
    /\ cmds = <<>>
    /\ sent = <<>>
    /\ vtasks = <<>>
    /\ tdRun = 0
    /\ tdTrace = <<>>
    /\ explicitStops = {}
    /\ lastMsgHadStop = FALSE

\* no sample array is under conversion
PcmIdle ==
    /\ inputData = <<>>
    /\ pcmBlob = NoBlob
    /\ channelData = <<>>
    /\ pcmStage = "none"

Init == Idle /\ PcmIdle

\* ------------------------------------------------------------- stopSession
\* lines 140-160: each resource a ref cell points to is released
StopSessionRes ==
    [i \in Sess |->
        [inCtx     |-> IF inputAudioContextRef = i THEN Release(res[i].inCtx) ELSE res[i].inCtx,
         outCtx    |-> IF audioContextRef = i THEN Release(res[i].outCtx) ELSE res[i].outCtx,
         stream    |-> IF streamRef = i THEN Release(res[i].stream) ELSE res[i].stream,
         source    |-> IF sourceRef = i THEN Release(res[i].source) ELSE res[i].source,
         processor |-> IF processorRef = i THEN Release(res[i].processor) ELSE res[i].processor]]

\* a teardown that forgets to null the stream and context refs after releasing them
StopSessionRefsKept ==
    /\ sessionRef' = 0
    /\ processorRef' = 0
    /\ sourceRef' = 0
    /\ UNCHANGED <<streamRef, audioContextRef, inputAudioContextRef>>

\* lines 138-160: every ref cell is nulled
StopSessionRefs ==
    /\ sessionRef' = 0
    /\ processorRef' = 0
    /\ sourceRef' = 0
    /\ streamRef' = 0
    /\ audioContextRef' = 0
    /\ inputAudioContextRef' = 0

\* lines 138-170: the calls stopSession makes on its collaborators, in program order; a
\* call guarded by a null ref is not made, and no statement of the function closes the
\* session
StopSessionCalls ==
    (IF processorRef # 0 THEN <<"processor.disconnect">> ELSE <<>>)
    \o (IF sourceRef # 0 THEN <<"source.disconnect">> ELSE <<>>)
    \o (IF streamRef # 0 THEN <<"track.stop">> ELSE <<>>)
    \o (IF audioContextRef # 0 THEN <<"audioContext.close">> ELSE <<>>)
    \o (IF inputAudioContextRef # 0 THEN <<"inputAudioContext.close">> ELSE <<>>)
    \o (IF sources # {} THEN <<"source.stop">> ELSE <<>>)
    \o <<"sources.clear">>

\* a payload whose handling is over: only what became of it is kept
Over(c, st) ==
    [c EXCEPT !.st = st, !.dur = 0, !.ok = FALSE, !.nowRead = 0, !.start = 0,
              !.afterStop = FALSE, !.flushed = FALSE, !.torn = FALSE]

\* source.stop() on every node of the set; a chunk awaiting its decode is marked
StopSources(mark) ==
    [k \in 1..Len(chunks) |->
        IF k \in sources THEN Over(chunks[k], "stopped")
        ELSE IF chunks[k].st = "decoding" THEN [chunks[k] EXCEPT ![mark] = TRUE]
        ELSE chunks[k]]

StopSession ==
    /\ res' = StopSessionRes
    /\ StopSessionRefs
    /\ chunks' = StopSources("torn")
    /\ sources' = {}
    /\ nextStartTime' = 0
    /\ lastEnd' = 0
    /\ cancelledEnd' = 0
    /\ isActive' = FALSE
    /\ isConnecting' = FALSE
    /\ tdRun' = Min(tdRun + 1, 2)
    /\ tdTrace' = StopSessionCalls
    /\ UNCHANGED <<isExecuting, isStopped, stopTimers>>

\* ------------------------------------------------------------ startSession
\* lines 316-476: the guards, then the two audio contexts, up to await getUserMedia
StartSession ==
    IF isActive \/ ~apiKey
    THEN UNCHANGED vars
    ELSE LET i == nStarted + 1 IN
         /\ nStarted' = i
         /\ isConnecting' = TRUE
         /\ res' = [res EXCEPT ![i].inCtx = "live", ![i].outCtx = "live"]
         /\ inputAudioContextRef' = i
         /\ audioContextRef' = i
         /\ pc' = [pc EXCEPT ![i] = "awaitMic"]
         /\ startOutcome' = [startOutcome EXCEPT ![i] = "pending"]
         /\ capImages' = [capImages EXCEPT ![i] = images]
         /\ capQueue' = [capQueue EXCEPT ![i] = queue]
         /\ capLanguage' = [capLanguage EXCEPT ![i] = currentLanguage]
         /\ tdRun' = 0
         /\ tdTrace' = <<>>
         /\ UNCHANGED <<uiVars, appVars, isActive, isExecuting, logged, streamRef, processorRef,
                        sourceRef, sessionRef, now, capVars, pcmVars, playVars, toolVars,
                        explicitStops, lastMsgHadStop>>

\* line 685: onClick={isActive ? stopSession : startSession}, the start half
ClickStart ==
    /\ ~isActive
    /\ nStarted < MaxSessions
    /\ StartSession

\* line 685, the stop half
ClickStop ==
    /\ isActive
    /\ StopSession
    /\ explicitStops' = explicitStops \cup {i \in Sess : pc[i] = "open"}
    /\ UNCHANGED <<uiVars, appVars, lifeVars, now, capVars, pcmVars, toolVars, lastMsgHadStop>>

\* lines 476-499: getUserMedia resolved; analyser wiring, then ai.live.connect
MicGranted(i) ==
    /\ pc[i] = "awaitMic"
    /\ streamRef' = i
    /\ \E throws \in (IF res[i].inCtx = "live" THEN {FALSE} ELSE BOOLEAN) :
          IF throws
          THEN \* createAnalyser / createMediaStreamSource on a closed context: catch, 656-659
               /\ pc' = [pc EXCEPT ![i] = "setupFailed"]
               /\ logged' = logged \cup {i}
               /\ isConnecting' = FALSE
          ELSE /\ pc' = [pc EXCEPT ![i] = "connecting"]
               /\ UNCHANGED <<logged, isConnecting>>
    /\ res' = [res EXCEPT ![i].stream = "live"]
    /\ startOutcome' = [startOutcome EXCEPT ![i] = "fulfilled"]
    /\ tdRun' = 0
    /\ tdTrace' = <<>>
    /\ UNCHANGED <<uiVars, appVars, isActive, isExecuting, nStarted, capImages, capLanguage,
                   capQueue,
                   inputAudioContextRef, audioContextRef, processorRef, sourceRef,
                   sessionRef, now, capVars, pcmVars, playVars, toolVars, explicitStops,
                   lastMsgHadStop>>

\* lines 476, 656-659: getUserMedia rejected; the catch logs and clears isConnecting
MicDenied(i) ==
    /\ pc[i] = "awaitMic"
    /\ pc' = [pc EXCEPT ![i] = "micFailed"]
    /\ logged' = logged \cup {i}
    /\ isConnecting' = FALSE
    /\ startOutcome' = [startOutcome EXCEPT ![i] = "fulfilled"]
    /\ tdRun' = 0
    /\ tdTrace' = <<>>
    /\ UNCHANGED <<uiVars, appVars, isActive, isExecuting, nStarted, capImages, capLanguage,
                   capQueue, res,
                   refVars, now, capVars, pcmVars,
                   playVars, toolVars, explicitStops, lastMsgHadStop>>

\* what goes on the wire: a send on a transport that is not open is not delivered
SendOn(i, log, msg) == IF pc[i] = "open" THEN Append(log, msg) ELSE log

\* lines 173-181: generateStateReport, a closure over the props of the render in which
\* startSession was created (language and queue length stand for the four values it reads)
StateReport(i) == <<"state", capLanguage[i], capImages[i]>>

\* an open handler that reports nothing
NoStateReport(i) == [sess |-> i, kind |-> "toolResponse", rs |-> <<>>]

\* lines 505-515: the initial state report
InitStateMsg(i) ==
    [sess |-> i, kind |-> "toolResponse",
     rs |-> <<[id |-> <<"init-state", i>>, name |-> "system_state_report",
               result |-> StateReport(i)]>>]

\* lines 501-537: onopen
OnOpen(i) ==
    /\ pc[i] = "connecting"
    /\ pc' = [pc EXCEPT ![i] = "open"]
    /\ isActive' = TRUE
    /\ isConnecting' = FALSE
    /\ sent' = Append(sent, InitStateMsg(i))
    /\ \E throws \in (IF res[i].inCtx = "live" THEN {FALSE} ELSE BOOLEAN) :
          IF throws
          THEN \* createMediaStreamSource on a closed context: lines 518-536 do not run
               UNCHANGED <<res, sourceRef, processorRef, sessionRef>>
          ELSE /\ res' = [res EXCEPT ![i].source = "live", ![i].processor = "live"]
               /\ sourceRef' = i
               /\ processorRef' = i
               /\ sessionRef' = i
    /\ tdRun' = 0
    /\ tdTrace' = <<>>
    /\ UNCHANGED <<uiVars, appVars, isExecuting, nStarted, startOutcome, logged, capImages,
                   capLanguage, capQueue,
                   inputAudioContextRef, audioContextRef, streamRef, now, capVars, pcmVars,
                   playVars,
                   calls, cmds, vtasks, execTimers, explicitStops, lastMsgHadStop>>

\* line 652: onerror: stopSession
TransportError(i) ==
    /\ pc[i] \in {"connecting", "open"}
    /\ pc' = [pc EXCEPT ![i] = "errored"]
    /\ StopSession
    /\ UNCHANGED <<uiVars, appVars, nStarted, startOutcome, logged, capImages, capLanguage,
                   capQueue, now,
                   capVars, pcmVars, toolVars,
                   explicitStops, lastMsgHadStop>>

\* line 651: onclose: stopSession (a WebSocket error is followed by its close)
TransportClose(i) ==
    /\ pc[i] \in {"connecting", "open", "errored"}
    /\ pc' = [pc EXCEPT ![i] = "closed"]
    /\ StopSession
    /\ UNCHANGED <<uiVars, appVars, nStarted, startOutcome, logged, capImages, capLanguage,
                   capQueue, now,
                   capVars, pcmVars, toolVars,
                   explicitStops, lastMsgHadStop>>

\* ------------------------------------------------------------ tool dispatch
\* the names of the function declarations, lines 329-464, and one the client does not know
ToolNames ==
    {"get_system_state", "scroll_viewport", "update_dashboard", "update_native_input",
     "trigger_native_generation", "perform_item_action", "apply_settings_globally",
     "start_processing_queue", "analyze_images", "request_visual_context",
     "manage_ui_state", "stop_speaking", "manage_queue_actions", "read_docs_content",
     "set_composite_config", "unknown_tool"}

\* the prop a branch of the if-chain of lines 546-619 calls, "none" when it calls none
Handler(name) ==
    IF name \in {"scroll_viewport", "update_dashboard", "update_native_input",
                 "trigger_native_generation", "perform_item_action",
                 "start_processing_queue", "manage_ui_state", "manage_queue_actions",
                 "set_composite_config"}
    THEN "onCommand"
    ELSE IF name = "apply_settings_globally" THEN "onApplyAll"
    ELSE IF name = "analyze_images" THEN "onAudit"
    ELSE "none"

\* line 342: the enum of scroll_viewport's direction
Directions == {"UP", "DOWN", "TOP", "BOTTOM"}

\* lines 389-400: targetIndex of perform_item_action, a 1-based position as a string
ItemIndices == {"1", "2", "3"}

\* App.tsx line 627: parseInt(cmd.targetIndex)
ParseInt(a) == IF a = "1" THEN 1 ELSE IF a = "2" THEN 2 ELSE 3

\* the actions of manage_ui_state that open and close the Composite Generator
UiActions == {"OPEN_COMPOSITE", "CLOSE_COMPOSITE"}

\* the argument of a call that the model keeps: the direction of a scroll_viewport, the
\* target of a perform_item_action (its action is REMOVE), the action of a
\* manage_ui_state, and that a trigger_native_generation carries a prompt
ArgsOf(name) ==
    IF name = "scroll_viewport" THEN Directions
    ELSE IF name = "perform_item_action" THEN ItemIndices
    ELSE IF name = "manage_ui_state" THEN UiActions
    ELSE IF name = "trigger_native_generation" THEN {"prompt"}
    ELSE {"none"}

\* a call as the server sends it, and whether the prop it reaches throws
CallInputs(names) ==
    {c \in [name : names, throws : BOOLEAN,
             arg : Directions \cup ItemIndices \cup UiActions \cup {"prompt", "none"}] :
        /\ c.throws => Handler(c.name) # "none"
        /\ c.arg \in ArgsOf(c.name)}

Batches(names, n) == UNION {[1..k -> CallInputs(names)] : k \in 0..n}

NoAudio == [dur |-> 0, ok |-> FALSE]
AudioInputs == [dur : 1..MaxDur, ok : BOOLEAN]

\* LiveServerMessage: message.toolCall.functionCalls and the inline audio of the model turn
Messages(names, n, audio) ==
    {m \in [calls : Batches(names, n), audio : audio \cup {NoAudio}] :
        m.calls # <<>> \/ m.audio # NoAudio}

CallId(n) == <<"fc", n>>
VisualAckId == <<"visual-context-sent", 0>>

\* the functionCalls of a message with the ids the server gave them
WithIds(cs) ==
    [k \in 1..Len(cs) |-> [id |-> CallId(Len(calls) + k), name |-> cs[k].name,
                           throws |-> cs[k].throws, arg |-> cs[k].arg]]

\* line 544 and the branches of lines 546-619: the result of a call
ResultOf(i, fc) ==
    [ok |-> TRUE,
     message |-> IF fc.name = "get_system_state" THEN StateReport(i)
                 ELSE IF fc.name = "scroll_viewport" THEN <<"Scrolled", fc.arg>>
                 ELSE IF fc.name = "unknown_tool" THEN <<"none">>
                 ELSE <<"done", fc.name>>]

\* the object a branch passes to its prop
CommandOf(fc) ==
    IF fc.name = "scroll_viewport" THEN [scrollAction |-> fc.arg]
    ELSE IF fc.name = "trigger_native_generation"
    THEN [triggerNative |-> TRUE, prompt |-> fc.arg]
    ELSE IF fc.name = "perform_item_action"
    THEN [itemAction |-> "REMOVE", targetIndex |-> fc.arg]
    ELSE IF fc.name = "manage_ui_state" THEN [uiAction |-> fc.arg]
    ELSE [tool |-> fc.name]

\* App.tsx line 396: tempId of the placeholder a handleNativeGen run adds
TempId(callId) == <<"gen", callId[2]>>

\* App.tsx lines 562-567, 592: modals.composite as handleVoiceCommand reads it; modals is
\* created with composite: false and no statement of App calls setModals
ModalsComposite == FALSE

\* App.tsx lines 578-794: handleVoiceCommand as the invocation i captured it, applied to
\* the App state app; the branches kept are triggerNative (with handleNativeGen, lines
\* 371-409, for a prompt that is not empty), itemAction REMOVE and uiAction
HandleVoiceCommand(i, app, c) ==
    IF c.tool = "trigger_native_generation"
    THEN IF ModalsComposite THEN app
         ELSE [app EXCEPT !.gen = TRUE,
                          !.queue = <<TempId(c.id)>> \o @,
                          !.pending = @ \cup {TempId(c.id)}]
    ELSE IF c.tool = "perform_item_action"
    THEN IF ParseInt(c.cmd.targetIndex) <= Len(capQueue[i])
         THEN [app EXCEPT !.queue = Without(@, capQueue[i][ParseInt(c.cmd.targetIndex)])]
         ELSE app
    ELSE IF c.tool = "manage_ui_state"
    THEN [app EXCEPT !.open = (c.cmd.uiAction = "OPEN_COMPOSITE")]
    ELSE app

\* the App state after the props invoked by a batch returned, in order
RECURSIVE AppAfter(_, _, _, _)
AppAfter(i, cs, k, app) ==
    IF k > Len(cs) THEN app
    ELSE AppAfter(i, cs, k + 1,
                  IF cs[k].fn = "onCommand" THEN HandleVoiceCommand(i, app, cs[k]) ELSE app)

NoEffects == [cmds |-> <<>>, rs |-> <<>>, nStop |-> 0, nVis |-> 0, threw |-> FALSE]

\* a loop that puts each response in front of the earlier ones
Unshift(rs, r) == <<r>> \o rs

\* lines 621-625: functionResponses.push({ id, name, response })
Push(rs, r) == Append(rs, r)

RECURSIVE RunCalls(_, _, _, _)
\* lines 542-626: the for loop over functionCalls; an exception thrown by a prop leaves it
RunCalls(i, cs, k, acc) ==
    IF k > Len(cs) THEN acc
    ELSE LET fc == cs[k]
             r  == [id |-> fc.id, name |-> fc.name, result |-> ResultOf(i, fc)]
         IN IF Handler(fc.name) # "none"
            THEN LET a1 == [acc EXCEPT !.cmds = Append(@, [fn |-> Handler(fc.name),
                                                           tool |-> fc.name,
                                                           cmd |-> CommandOf(fc),
                                                           id |-> fc.id, sess |-> i])]
                 IN IF fc.throws
                    THEN [a1 EXCEPT !.threw = TRUE]
                    ELSE RunCalls(i, cs, k + 1, [a1 EXCEPT !.rs = Push(@, r)])
            ELSE IF fc.name = "request_visual_context"
            THEN RunCalls(i, cs, k + 1, [acc EXCEPT !.nVis = @ + 1])
            ELSE IF fc.name = "stop_speaking"
            THEN RunCalls(i, cs, k + 1, [acc EXCEPT !.nStop = @ + 1, !.rs = Push(@, r)])
            ELSE RunCalls(i, cs, k + 1, [acc EXCEPT !.rs = Push(@, r)])

ToolResponseMsg(i, rs) == [sess |-> i, kind |-> "toolResponse", rs |-> rs]

\* lines 258-261: sendVisualContext returns at once on an empty queue; images is the prop
\* of the render in which startSession was created. queue (the length of the queue when
\* the call is handled) and frames (the frames sent so far) are history.
NewVisualTasks(i, n) ==
    IF capImages[i] = 0 THEN <<>>
    ELSE [j \in 1..n |-> [sess |-> i, total |-> Min(capImages[i], VisualBatchMax),
                          left |-> Min(capImages[i], VisualBatchMax),
                          queue |-> images, frames |-> 0]]

HasStop(cs) == \E k \in 1..Len(cs) : cs[k].name = "stop_speaking"

\* a flush that leaves the end of the queue where it was
KeptStart(nst) == nst

\* line 596: nextStartTimeRef.current = 0
FlushedStart(nst) == 0

\* a scheduler that restarts at the clock whatever is already queued
ClockOnly(nst, t) == t

\* line 638: Math.max(nextStartTimeRef.current, audioContext.currentTime)
ClampToNow(nst, t) == Max(nst, t)

\* lines 538-649: onmessage, up to its await of decodeAudioData
OnMessage(i, m) ==
    LET cs       == WithIds(m.calls)
        hasTools == cs # <<>>
        acc      == IF hasTools THEN RunCalls(i, cs, 1, NoEffects) ELSE NoEffects
        flushed  == acc.nStop > 0
        hasAudio == m.audio # NoAudio
        blocked  == isStopped \/ flushed
        reached  == hasAudio /\ ~acc.threw
        decoding == reached /\ ~blocked
        base     == IF flushed THEN StopSources("flushed") ELSE chunks
        arrived  == [sess |-> i, dur |-> m.audio.dur, ok |-> m.audio.ok, st |-> "decoding",
                     nowRead |-> now, start |-> 0,
                     afterStop |-> HasStop(cs) \/ lastMsgHadStop,
                     flushed |-> FALSE, torn |-> FALSE]
        done     == IF acc.threw THEN SubSeq(acc.cmds, 1, Len(acc.cmds) - 1) ELSE acc.cmds
        app      == AppAfter(i, done, 1,
                             [queue |-> queue, open |-> isCompositeModalOpen,
                              gen |-> isGeneratingNative, pending |-> pendingNative])
        chunk    == IF ~reached THEN Over(arrived, "unhandled")
                    ELSE IF blocked THEN Over(arrived, "blocked")
                    ELSE arrived
    IN
    /\ pc[i] = "open"
    /\ Len(calls) + Len(cs) <= MaxCalls
    /\ hasAudio => Len(chunks) < MaxChunks
    /\ calls' = calls \o [k \in 1..Len(cs) |->
                            [id |-> cs[k].id, name |-> cs[k].name, arg |-> cs[k].arg,
                             sess |-> i, active |-> isActive]]
    /\ isExecuting' = (hasTools \/ isExecuting)
    /\ cmds' = cmds \o acc.cmds
    /\ queue' = app.queue
    /\ images' = Len(app.queue)
    /\ isCompositeModalOpen' = app.open
    /\ isGeneratingNative' = app.gen
    /\ pendingNative' = app.pending
    /\ isStopped' = blocked
    /\ stopTimers' = stopTimers + acc.nStop
    /\ sources' = IF flushed THEN {} ELSE sources
    /\ lastEnd' = IF flushed THEN 0 ELSE lastEnd
    /\ cancelledEnd' = IF flushed THEN nextStartTime ELSE cancelledEnd
    /\ vtasks' = vtasks \o NewVisualTasks(i, acc.nVis)
    /\ sent' = IF hasTools /\ ~acc.threw /\ acc.rs # <<>>
               THEN Append(sent, ToolResponseMsg(i, acc.rs)) ELSE sent
    /\ execTimers' = IF hasTools /\ ~acc.threw THEN execTimers + 1 ELSE execTimers
    /\ nextStartTime' = IF decoding THEN ClampToNow(nextStartTime, now)
                        ELSE IF flushed THEN FlushedStart(nextStartTime) ELSE nextStartTime
    /\ chunks' = IF hasAudio THEN Append(base, chunk) ELSE base
    /\ lastMsgHadStop' = HasStop(cs)
    /\ tdRun' = 0
    /\ tdTrace' = <<>>
    /\ UNCHANGED <<apiKey, currentLanguage, batchCompleteTrigger, isActive, isConnecting,
                   lifeVars, res, refVars, now, capVars, pcmVars, explicitStops>>

\* a failure handler that also flushes the playback
DecodeFailedFlushes(k) ==
    /\ chunks' = [StopSources("flushed") EXCEPT ![k] = Over(@, "failed")]
    /\ sources' = {}
    /\ nextStartTime' = 0
    /\ lastEnd' = 0
    /\ cancelledEnd' = nextStartTime

\* lines 23-31, 648: new Int16Array on an odd byte length throws; catch (e) { }
DecodeFailed(k) ==
    /\ chunks' = [chunks EXCEPT ![k] = Over(@, "failed")]
    /\ UNCHANGED <<nextStartTime, sources, lastEnd, cancelledEnd>>

\* lines 640-648: decodeAudioData settled; the buffer is started and the clock of starts advanced
DecodeDone(k) ==
    /\ k \in 1..Len(chunks)
    /\ chunks[k].st = "decoding"
    /\ IF chunks[k].ok
       THEN /\ chunks' = [chunks EXCEPT ![k].st = "playing", ![k].start = nextStartTime,
                                        ![k].nowRead = 0]
            /\ nextStartTime' = nextStartTime + chunks[k].dur
            /\ sources' = sources \cup {k}
            /\ lastEnd' = nextStartTime + chunks[k].dur
            /\ UNCHANGED cancelledEnd
       ELSE DecodeFailed(k)
    /\ tdRun' = 0
    /\ tdTrace' = <<>>
    /\ UNCHANGED <<uiVars, appVars, flagVars, lifeVars, res, refVars, now, capVars, pcmVars,
                   isStopped, stopTimers,
                   toolVars, explicitStops, lastMsgHadStop>>

\* line 647: source.onended deletes the node from the set
SourceEnded(k) ==
    /\ k \in sources
    /\ now >= chunks[k].start + chunks[k].dur
    /\ chunks' = [chunks EXCEPT ![k] = Over(@, "ended")]
    /\ sources' = sources \ {k}
    /\ tdRun' = 0
    /\ tdTrace' = <<>>
    /\ UNCHANGED <<uiVars, appVars, flagVars, lifeVars, res, refVars, now, capVars, pcmVars,
                   nextStartTime,
                   isStopped,
                   stopTimers, lastEnd, cancelledEnd, toolVars, explicitStops, lastMsgHadStop>>

\* audioContext.currentTime advances
Tick ==
    /\ now < MaxTime
    /\ now' = now + 1
    /\ UNCHANGED <<uiVars, appVars, flagVars, lifeVars, res, refVars, capVars, pcmVars, playVars,
                   toolVars,
                   histVars>>

\* line 599: the reset armed by a stop_speaking call fires
StopTimerFires ==
    /\ stopTimers > 0
    /\ stopTimers' = stopTimers - 1
    /\ isStopped' = FALSE
    /\ tdRun' = 0
    /\ tdTrace' = <<>>
    /\ UNCHANGED <<uiVars, appVars, flagVars, lifeVars, res, refVars, now, capVars, pcmVars,
                   nextStartTime, sources,
                   chunks, lastEnd, cancelledEnd, toolVars, explicitStops, lastMsgHadStop>>

\* line 631: the timer armed at the end of a batch fires
ExecTimerFires ==
    /\ execTimers > 0
    /\ execTimers' = execTimers - 1
    /\ isExecuting' = FALSE
    /\ tdRun' = 0
    /\ tdTrace' = <<>>
    /\ UNCHANGED <<uiVars, appVars, isActive, isConnecting, lifeVars, res, refVars, now, capVars,
                   pcmVars,
                   playVars,
                   calls, cmds, sent, vtasks, explicitStops, lastMsgHadStop>>

RemoveAt(s, j) == [n \in 1..(Len(s) - 1) |-> IF n < j THEN s[n] ELSE s[n + 1]]

VisualAckMsg(i) ==
    ToolResponseMsg(i, <<[id |-> VisualAckId, name |-> "request_visual_context"]>>)

\* lines 262-313: one iteration of the loop of sendVisualContext after its image loaded
\* (drawn = FALSE: the try block threw and the frame is skipped); the acknowledgement
\* follows the last iteration in the same segment
VisualFrame(j, drawn) ==
    /\ j \in 1..Len(vtasks)
    /\ LET t  == vtasks[j]
           s1 == IF drawn THEN SendOn(t.sess, sent, [sess |-> t.sess, kind |-> "image",
           rs |-> <<>>])
                 ELSE sent
       IN IF t.left > 1
          THEN /\ vtasks' = [vtasks EXCEPT ![j].left = @ - 1,
                                           ![j].frames = @ + Len(s1) - Len(sent)]
               /\ sent' = s1
          ELSE /\ vtasks' = RemoveAt(vtasks, j)
               /\ sent' = SendOn(t.sess, s1, VisualAckMsg(t.sess))
    /\ tdRun' = 0
    /\ tdTrace' = <<>>
    /\ UNCHANGED <<uiVars, appVars, flagVars, lifeVars, res, refVars, now, capVars, pcmVars,
                   playVars, calls, cmds,
                   execTimers, explicitStops, lastMsgHadStop>>

\* App.tsx: the queue grows or shrinks at its end (upload, removeImage, clear)
SetImages(n) ==
    /\ n # images
    /\ images' = n
    /\ queue' = IF n <= Len(queue) THEN SubSeq(queue, 1, n) ELSE Grown(queue, n)
    /\ UNCHANGED <<apiKey, currentLanguage, batchCompleteTrigger, isCompositeModalOpen,
                   isGeneratingNative, pendingNative, flagVars, lifeVars, res,
                   refVars, now, capVars, pcmVars, playVars, toolVars, histVars>>

\* App.tsx lines 250-253: removeImage of the image at position k (the card's button)
RemoveImage(k) ==
    /\ k \in 1..Len(queue)
    /\ queue' = Without(queue, queue[k])
    /\ images' = Len(queue')
    /\ UNCHANGED <<apiKey, currentLanguage, batchCompleteTrigger, isCompositeModalOpen,
                   isGeneratingNative, pendingNative, flagVars, lifeVars, res,
                   refVars, now, capVars, pcmVars, playVars, toolVars, histVars>>

\* App.tsx lines 460-463: the Composite Generator modal is opened or closed by the user
SetCompositeModal(open) ==
    /\ open # isCompositeModalOpen
    /\ isCompositeModalOpen' = open
    /\ UNCHANGED <<uiVars, queue, isGeneratingNative, pendingNative, flagVars, lifeVars, res,
                   refVars, now, capVars, pcmVars, playVars, toolVars, histVars>>

\* App.tsx lines 411-438: generateImageFromText settled; the placeholder is filled in or
\* filtered out, and the flag is cleared
NativeGenSettled(id, ok) ==
    /\ id \in pendingNative
    /\ pendingNative' = pendingNative \ {id}
    /\ queue' = IF ok THEN queue ELSE Without(queue, id)
    /\ images' = Len(queue')
    /\ isGeneratingNative' = FALSE
    /\ UNCHANGED <<apiKey, currentLanguage, batchCompleteTrigger, isCompositeModalOpen,
                   flagVars, lifeVars, res,
                   refVars, now, capVars, pcmVars, playVars, toolVars, histVars>>

\* ApiKeyContext: setApiKey
SetApiKey ==
    /\ ~apiKey
    /\ apiKey' = TRUE
    /\ UNCHANGED <<images, currentLanguage, batchCompleteTrigger, appVars, flagVars, lifeVars, res,
                   refVars, now, capVars, pcmVars, playVars, toolVars, histVars>>

\* lines 122-131: the announcement of the completion the effect's render sees
AnnounceMsg(i, n) ==
    [sess |-> i, kind |-> "toolResponse",
     rs |-> <<[id |-> <<"batch-complete", n>>, name |-> "system_announcement_trigger"]>>]

\* lines 119-135: the effect body, run with the props of the render that changed
\* batchCompleteTrigger or currentLanguage
AnnounceEffect(trigger) ==
    IF trigger > 0 /\ sessionRef # 0
    THEN SendOn(sessionRef, sent, AnnounceMsg(sessionRef, trigger))
    ELSE sent

\* App.tsx processAll: the batch ends, setBatchCompleteTrigger(prev => prev + 1)
BatchComplete ==
    /\ batchCompleteTrigger < MaxBatches
    /\ batchCompleteTrigger' = batchCompleteTrigger + 1
    /\ sent' = AnnounceEffect(batchCompleteTrigger + 1)
    /\ UNCHANGED <<apiKey, images, currentLanguage, appVars, flagVars, lifeVars, res, refVars, now,
                   capVars, pcmVars, playVars, calls, cmds, vtasks, execTimers, histVars>>

\* App.tsx handleLanguageChange: i18n.changeLanguage, the prop changes
ChangeLanguage(l) ==
    /\ l # currentLanguage
    /\ currentLanguage' = l
    /\ sent' = AnnounceEffect(batchCompleteTrigger)
    /\ UNCHANGED <<apiKey, images, batchCompleteTrigger, appVars, flagVars, lifeVars, res, refVars,
                   now, capVars, pcmVars, playVars, calls, cmds, vtasks, execTimers, histVars>>

\* line 525: e.inputBuffer.getChannelData(0); the n-th buffer of an invocation holds one
\* sample, n quantization steps, so that the buffers of an invocation differ
InputBuffer(n) == <<n * QuantStep>>

\* line 529: session.sendRealtimeInput({ media: pcmBlob })
RealtimeInputMsg(i, blob) == [sess |-> i, kind |-> "realtimeInput", rs |-> <<>>, media |-> blob]

\* lines 524-531: scriptProcessor.onaudioprocess, fired while the node is connected in a
\* running context
OnAudioProcess(i) ==
    /\ res[i].processor = "live"
    /\ res[i].inCtx = "live"
    /\ frames[i] < MaxFrames
    /\ frames' = [frames EXCEPT ![i] = @ + 1]
    /\ sent' = SendOn(i, sent,
                      RealtimeInputMsg(i, CreateBlob(InputBuffer(frames[i] + 1), deviceRate)))
    /\ UNCHANGED <<uiVars, appVars, flagVars, lifeVars, res, refVars, now, deviceRate, pcmVars,
                   playVars,
                   calls, cmds, vtasks, execTimers, histVars>>

\* the audio hardware is replaced while no input context exists
DeviceChange(r) ==
    /\ r # deviceRate
    /\ \A i \in Sess : res[i].inCtx # "live"
    /\ deviceRate' = r
    /\ UNCHANGED <<uiVars, appVars, flagVars, lifeVars, res, refVars, now, frames, pcmVars,
                   playVars,
                   toolVars, histVars>>

\* createBlob(inputData, inputAudioContext.sampleRate) applied to the array under conversion
CreateBlobStep ==
    /\ pcmStage = "input"
    /\ pcmBlob' = CreateBlob(inputData, deviceRate)
    /\ pcmStage' = "encoded"
    /\ UNCHANGED <<uiVars, appVars, flagVars, lifeVars, res, refVars, now, capVars, inputData,
                   channelData, playVars, toolVars, histVars>>

\* decodeAudioData(decode(blob.data), ctx, rate, 1) applied to that blob
DecodeAudioDataStep ==
    /\ pcmStage = "encoded"
    /\ channelData' = DecodeAudioData(Decode(pcmBlob.data))
    /\ pcmStage' = "decoded"
    /\ UNCHANGED <<uiVars, appVars, flagVars, lifeVars, res, refVars, now, capVars, inputData,
                   pcmBlob, playVars, toolVars, histVars>>

\* ------------------------------------------------- the session life cycle
\* Spec: every start, stop and transport event of up to MaxSessions invocations, with
\* up to LifeMsgs inbound messages (one scroll_viewport call, or one audio payload)
CoreMessages ==
    {m \in Messages({"scroll_viewport"}, 1, {[dur |-> 1, ok |-> TRUE]}) :
        /\ m.calls = <<>> \/ m.audio = NoAudio
        /\ \A k \in 1..Len(m.calls) : ~m.calls[k].throws /\ m.calls[k].arg = "DOWN"}

Next ==
    \/ SetApiKey
    \/ \E n \in 0..MaxImages : SetImages(n)
    \/ ClickStart
    \/ ClickStop
    \/ \E i \in Sess : MicGranted(i)
    \/ \E i \in Sess : MicDenied(i)
    \/ \E i \in Sess : OnOpen(i)
    \/ \E i \in Sess : TransportError(i)
    \/ \E i \in Sess : TransportClose(i)
    \/ \E i \in Sess, m \in CoreMessages :
          Len(calls) + Len(chunks) < LifeMsgs /\ OnMessage(i, m)
    \/ \E k \in 1..MaxChunks : DecodeDone(k)
    \/ ExecTimerFires

Spec == Init /\ [][Next]_vars

\* SpecTeardown: the starts, stops and transport events of up to MaxRestarts invocations
\* while audio payloads arrive and are decoded
TeardownMessages == {m \in CoreMessages : m.calls = <<>>}

NextTeardown ==
    \/ SetApiKey
    \/ \E n \in 0..MaxImages : SetImages(n)
    \/ nStarted < MaxRestarts /\ ClickStart
    \/ ClickStop
    \/ \E i \in Sess : MicGranted(i)
    \/ \E i \in Sess : MicDenied(i)
    \/ \E i \in Sess : OnOpen(i)
    \/ \E i \in Sess : TransportError(i)
    \/ \E i \in Sess : TransportClose(i)
    \/ \E i \in Sess, m \in TeardownMessages :
          Len(chunks) < LifeMsgs /\ OnMessage(i, m)
    \/ \E k \in 1..MaxChunks : DecodeDone(k)

SpecTeardown == Init /\ [][NextTeardown]_vars

\* ------------------------------------------------------ one live session
\* the state after ClickStart, MicGranted(1) and OnOpen(1), for a queue of any length
InitLive ==
    /\ apiKey = TRUE
    /\ images \in 0..MaxImages
    /\ currentLanguage = "en"
    /\ batchCompleteTrigger = 0
    /\ queue = Uploaded(images)
    /\ isCompositeModalOpen = FALSE /\ isGeneratingNative = FALSE /\ pendingNative = {}
    /\ isActive = TRUE /\ isConnecting = FALSE /\ isExecuting = FALSE
    /\ nStarted = 1
    /\ pc = [i \in Sess |-> IF i = 1 THEN "open" ELSE "none"]
    /\ startOutcome = [i \in Sess |-> IF i = 1 THEN "fulfilled" ELSE "none"]
    /\ logged = {}
    /\ capImages = [i \in Sess |-> IF i = 1 THEN images ELSE 0]
    /\ capLanguage = [i \in Sess |-> "en"]
    /\ capQueue = [i \in Sess |-> IF i = 1 THEN queue ELSE <<>>]
    /\ res = [i \in Sess |-> IF i = 1
                             THEN [inCtx |-> "live", outCtx |-> "live", stream |-> "live",
                                   source |-> "live", processor |-> "live"]
                             ELSE NoRes]
    /\ inputAudioContextRef = 1 /\ audioContextRef = 1 /\ streamRef = 1
    /\ processorRef = 1 /\ sourceRef = 1 /\ sessionRef = 1
    /\ now = 0
    /\ deviceRate = DefaultRate
    /\ frames = [i \in Sess |-> 0]
    /\ nextStartTime = 0
    /\ sources = {}
    /\ isStopped = FALSE
    /\ stopTimers = 0
    /\ execTimers = 0
    /\ chunks = <<>>
    /\ lastEnd = 0
    /\ cancelledEnd = 0
    /\ calls = <<>>
    /\ cmds = <<>>
    /\ sent = <<InitStateMsg(1)>>
    /\ vtasks = <<>>
    /\ tdRun = 0
    /\ tdTrace = <<>>
    /\ explicitStops = {}
    /\ lastMsgHadStop = FALSE
    /\ PcmIdle

\* the live session with an empty image queue
InitAudio == InitLive /\ images = 0

\* SpecAudio: the live session receives audio payloads and stop_speaking calls, alone
\* or followed in their batch by a scroll_viewport call, while the output clock runs.
\* The timer that clears isExecuting is left pending: nothing here reads the flag.
AudioBatches ==
    {<<>>, <<[name |-> "stop_speaking", throws |-> FALSE, arg |-> "none"]>>}
    \cup {<<[name |-> "stop_speaking", throws |-> FALSE, arg |-> "none"],
            [name |-> "scroll_viewport", throws |-> t, arg |-> "DOWN"]>> : t \in BOOLEAN}

AudioMessages ==
    {m \in [calls : AudioBatches, audio : AudioInputs \cup {NoAudio}] :
        m.calls # <<>> \/ m.audio # NoAudio}

NextAudio ==
    \/ \E m \in AudioMessages : OnMessage(1, m)
    \/ \E k \in 1..MaxChunks : DecodeDone(k)
    \/ \E k \in 1..MaxChunks : SourceEnded(k)
    \/ Tick
    \/ StopTimerFires

SpecAudio == InitAudio /\ [][NextAudio]_vars

\* SpecSched: the live session receives audio payloads and single stop_speaking calls
\* (at most MaxStops of them) while the output clock runs
SchedMessages ==
    {m \in [calls : {<<>>,
                     <<[name |-> "stop_speaking", throws |-> FALSE, arg |-> "none"]>>},
            audio : AudioInputs \cup {NoAudio}] :
        m.calls # <<>> \/ m.audio # NoAudio}

NextSched ==
    \/ \E m \in SchedMessages :
          Len(calls) + Len(m.calls) <= MaxStops /\ OnMessage(1, m)
    \/ \E k \in 1..MaxChunks : DecodeDone(k)
    \/ \E k \in 1..MaxChunks : SourceEnded(k)
    \/ Tick
    \/ StopTimerFires

SpecSched == InitAudio /\ [][NextSched]_vars

\* SpecDispatch: the live session receives batches of calls of every tool
DispatchMessages == Messages(ToolNames, MaxCalls, {})

NextDispatch ==
    \/ \E m \in DispatchMessages : OnMessage(1, m)
    \/ \E j \in 1..MaxCalls, drawn \in BOOLEAN : VisualFrame(j, drawn)
    \/ StopTimerFires
    \/ ExecTimerFires

SpecDispatch == InitLive /\ [][NextDispatch]_vars

\* SpecAnnounce: batches complete and the interface language changes while up to
\* MaxRestarts invocations start, open, stop and close, until MaxSent messages were sent
NextAnnounce ==
    \/ SetApiKey
    \/ nStarted < MaxRestarts /\ ClickStart
    \/ ClickStop
    \/ \E i \in Sess : MicGranted(i)
    \/ \E i \in Sess : OnOpen(i)
    \/ \E i \in Sess : TransportClose(i)
    \/ Len(sent) < MaxSent /\ BatchComplete
    \/ \E l \in Languages : Len(sent) < MaxSent /\ ChangeLanguage(l)

SpecAnnounce == Init /\ [][NextAnnounce]_vars

\* SpecCapture: up to MaxRestarts invocations start, open, capture up to MaxFrames buffers
\* each, stop and close, on hardware of any rate
NextCapture ==
    \/ SetApiKey
    \/ \E r \in Rates : DeviceChange(r)
    \/ nStarted < MaxRestarts /\ ClickStart
    \/ ClickStop
    \/ \E i \in Sess : MicGranted(i)
    \/ \E i \in Sess : MicDenied(i)
    \/ \E i \in Sess : OnOpen(i)
    \/ \E i \in Sess : TransportError(i)
    \/ \E i \in Sess : TransportClose(i)
    \/ \E i \in Sess : OnAudioProcess(i)

SpecCapture == Init /\ [][NextCapture]_vars

\* ------------------------------------------------------ the PCM16 round trip
\* SpecPcm: an array of up to MaxSamples samples in [-1, 1] is encoded by createBlob at
\* either hardware rate and decoded by decodeAudioData. The samples lie SampleStride apart
\* over the whole range, with the neighbours of each grid point and both ends of the range.
Samples ==
    {x \in (-Unit)..Unit :
        \/ x % SampleStride \in {0, 1, SampleStride - 1}
        \/ x \in {-Unit, Unit}}

RECURSIVE SampleArrays(_)
SampleArrays(n) ==
    IF n = 0 THEN {<<>>}
    ELSE SampleArrays(n - 1)
         \cup {Append(a, x) : a \in {b \in SampleArrays(n - 1) : Len(b) = n - 1}, x \in Samples}

InitPcm ==
    /\ Idle
    /\ inputData \in SampleArrays(MaxSamples) \ {<<>>}
    /\ pcmBlob = NoBlob
    /\ channelData = <<>>
    /\ pcmStage = "input"

NextPcm ==
    \/ \E r \in Rates : pcmStage = "input" /\ DeviceChange(r)
    \/ CreateBlobStep
    \/ DecodeAudioDataStep

SpecPcm == InitPcm /\ [][NextPcm]_vars

\* SpecReport: the model asks the live session for the system state, alone or in a batch
\* with a scroll_viewport call, while the image queue and the interface language change
ReportMessages == Messages({"get_system_state", "scroll_viewport"}, MaxCalls, {})

NextReport ==
    \/ \E n \in 0..MaxImages : SetImages(n)
    \/ \E l \in Languages : ChangeLanguage(l)
    \/ \E m \in ReportMessages : OnMessage(1, m)
    \/ ExecTimerFires

SpecReport == InitLive /\ [][NextReport]_vars

\* SpecBatch: the live session receives batches of up to MaxCalls calls of four tools (one
\* that calls onCommand, one that calls onAudit, request_visual_context and stop_speaking)
\* while the frames of the visual context are sent and the timers fire
BatchTools == {"update_dashboard", "analyze_images", "request_visual_context", "stop_speaking"}

BatchMessages == Messages(BatchTools, MaxCalls, {})

NextBatch ==
    \/ \E m \in BatchMessages : OnMessage(1, m)
    \/ \E j \in 1..MaxCalls, drawn \in BOOLEAN : VisualFrame(j, drawn)
    \/ StopTimerFires
    \/ ExecTimerFires

SpecBatch == InitLive /\ [][NextBatch]_vars

\* SpecVisual: the queue grows to more than VisualBatchMax images and shrinks again before
\* and after one session is started; the session receives request_visual_context calls,
\* alone or in a batch with a scroll_viewport call, and the frames are sent
VisualMessages ==
    {m \in Messages({"request_visual_context", "scroll_viewport"}, MaxCalls, {}) :
        \A k \in 1..Len(m.calls) : ~m.calls[k].throws /\ m.calls[k].arg \in {"none", "DOWN"}}

NextVisual ==
    \/ SetApiKey
    \/ \E n \in 0..(VisualBatchMax + 1) : SetImages(n)
    \/ nStarted < MaxRestarts /\ ClickStart
    \/ \E i \in Sess : MicGranted(i)
    \/ \E i \in Sess : OnOpen(i)
    \/ \E i \in Sess, m \in VisualMessages : OnMessage(i, m)
    \/ \E j \in 1..MaxCalls, drawn \in BOOLEAN : VisualFrame(j, drawn)
    \/ ExecTimerFires

SpecVisual == Init /\ [][NextVisual]_vars

\* SpecNative: the live session receives trigger_native_generation and manage_ui_state
\* calls while the user opens and closes the Composite Generator and the generations settle
NativeMessages ==
    {m \in Messages({"trigger_native_generation", "manage_ui_state"}, MaxCalls, {}) :
        \A k \in 1..Len(m.calls) : ~m.calls[k].throws}

NextNative ==
    \/ \E open \in BOOLEAN : SetCompositeModal(open)
    \/ \E m \in NativeMessages : OnMessage(1, m)
    \/ \E n \in 1..MaxCalls, ok \in BOOLEAN : NativeGenSettled(TempId(CallId(n)), ok)
    \/ ExecTimerFires

SpecNative == InitLive /\ [][NextNative]_vars

\* ---- item actions by position: uploads and removals around the start of a session
\* the batches of perform_item_action calls whose handler returns
ItemMessages ==
    {m \in Messages({"perform_item_action"}, 1, {}) :
        \A k \in 1..Len(m.calls) : ~m.calls[k].throws}

\* an upload of App.tsx lines 152-196 appends items whose ids no session has seen
\* (uuidv4); the ids uploaded in a behaviour are capped by the number of indices plus one
FreshUpload(n) ==
    /\ n > Len(queue)
    /\ \A i \in Sess : MaxImg(queue) >= MaxImg(capQueue[i])
    /\ MaxImg(queue) + (n - Len(queue)) <= Cardinality(ItemIndices) + 1

NextItems ==
    \/ SetApiKey
    \/ \E n \in 0..Cardinality(ItemIndices) : FreshUpload(n) /\ SetImages(n)
    \/ \E k \in 1..Cardinality(ItemIndices) : RemoveImage(k)
    \/ nStarted < MaxRestarts /\ ClickStart
    \/ \E i \in Sess : MicGranted(i)
    \/ \E i \in Sess : OnOpen(i)
    \/ \E i \in Sess, m \in ItemMessages : OnMessage(i, m)
    \/ ExecTimerFires

SpecItems == Init /\ [][NextItems]_vars

\* ---- the 'executing' indicator: batches whose handlers may throw, and the timers of
\* line 631, which the event loop runs once they are due
ExecMessages == Messages({"scroll_viewport", "update_dashboard", "get_system_state"}, MaxCalls, {})

NextExec ==
    \/ \E m \in ExecMessages : OnMessage(1, m)
    \/ ExecTimerFires

SpecExec == InitLive /\ [][NextExec]_vars /\ WF_vars(ExecTimerFires)

\* ================================================================ properties
\* the response entries of the messages appended to the wire by a step, as <<message, entry>>
NewResponses ==
    {p \in ((Len(sent) + 1)..Len(sent')) \X (1..MaxCalls) : p[2] <= Len(sent'[p[1]].rs)}

\* the calls received by a step
NewCalls == {n \in 1..Len(calls') : n > Len(calls)}

\* C1: for every inbound batch of N tool calls, none of which is request_visual_context,
\* the step that handles the batch sends exactly N tool responses, one per call id, also
\* when onCommand, onApplyAll or onAudit throws on one of the calls
C1_DispatchComplete ==
    [][(NewCalls # {} /\ \A n \in NewCalls : calls'[n].name # "request_visual_context")
        => /\ Cardinality(NewResponses) = Cardinality(NewCalls)
           /\ \A n \in NewCalls :
                 Cardinality({p \in NewResponses :
                                 sent'[p[1]].rs[p[2]].id = calls'[n].id}) = 1]_vars

\* the response entries on the wire that carry the id of a call
Answers(id) ==
    {p \in (1..Len(sent)) \X (1..MaxCalls) :
        /\ p[2] <= Len(sent[p[1]].rs)
        /\ sent[p[1]].rs[p[2]].id = id}

\* C2: once no sendVisualContext is running (nothing is left that could still answer),
\* every tool call received while the session was active, request_visual_context
\* included, has exactly one tool response carrying its own id
C2_EveryCallAnswered ==
    vtasks = <<>> =>
        \A n \in 1..Len(calls) : calls[n].active => Cardinality(Answers(calls[n].id)) = 1

\* C3: an audio payload that follows a stop_speaking call, in the same message or as the
\* very next message, is never started, and every stop_speaking call received has a tool
\* response with its id
C3_StopThenAudio ==
    /\ \A k \in 1..Len(chunks) : chunks[k].afterStop => chunks[k].st # "playing"
    /\ \A n \in 1..Len(calls) :
          calls[n].name = "stop_speaking" => Answers(calls[n].id) # {}

\* C4: a payload that was awaiting its decode when a stop_speaking flush ran is never
\* started, and a flush leaves no source that was in the set before it
C4_FlushDropsInFlight ==
    /\ \A k \in 1..Len(chunks) : chunks[k].flushed => chunks[k].st # "playing"
    /\ \A k \in sources : chunks[k].st = "playing"

\* C5: with no stop_speaking and no teardown in between, the handler of a payload raises
\* nextStartTime to max(nextStartTime, now), the payload is started at the maximum of
\* nextStartTime and the clock its handler read, and nextStartTime then advances by its
\* duration; so a start is never before the end of the buffer started before it (starts
\* do not decrease, buffers do not overlap) and never later than both that end and the
\* clock
C5_ScheduleMonotone ==
    [][/\ (Len(chunks') > Len(chunks) /\ chunks'[Len(chunks')].st = "decoding"
           /\ calls' = calls)
          => nextStartTime' = Max(nextStartTime, now)
       /\ \A k \in 1..Len(chunks) :
             (/\ chunks[k].st = "decoding" /\ chunks'[k].st = "playing"
              /\ ~chunks[k].flushed /\ ~chunks[k].torn)
             => /\ chunks'[k].start = Max(nextStartTime, chunks[k].nowRead)
                /\ nextStartTime' = chunks'[k].start + chunks[k].dur
                /\ chunks'[k].start >= lastEnd
                /\ chunks'[k].start <= Max(lastEnd, now)
                /\ \A j \in sources :
                      chunks'[k].start >= chunks[j].start + chunks[j].dur]_vars

\* C5, the case: two buffers are in the set, the second started where the first ends
C5_Witness ==
    \E j \in sources, k \in sources :
        /\ j # k
        /\ chunks[j].dur > 0
        /\ chunks[k].start = chunks[j].start + chunks[j].dur

\* the state of the component: everything but the transports' own state and the history
ComponentState ==
    <<uiVars, appVars, flagVars, nStarted, startOutcome, logged, capImages, capLanguage,
      capQueue, res, refVars,
      now, capVars, pcmVars,
      playVars, toolVars>>

\* C6: a stopSession that runs right after a stopSession (a transport error or close
\* after a stop, a close after an error) releases nothing, so no resource is ever
\* released twice, and leaves the state of the component as the first run left it
C6_TeardownIdempotent ==
    [][/\ \A i \in Sess :
             /\ res'[i].inCtx # "rereleased" /\ res'[i].outCtx # "rereleased"
             /\ res'[i].stream # "rereleased" /\ res'[i].source # "rereleased"
             /\ res'[i].processor # "rereleased"
       /\ (tdRun >= 1 /\ tdRun' = 2 /\ pc' # pc) => ComponentState' = ComponentState]_vars

\* C6, the case: stopSession has run twice in a row on a session that held a microphone
C6_Witness ==
    /\ tdRun = 2
    /\ \E i \in Sess : res[i].stream = "released" /\ res[i].outCtx = "released"

\* C7: a start request made while isConnecting or isActive holds starts nothing: no
\* invocation leaves its initial position and no resource is acquired
C7_StartIsNoOpWhenBusy ==
    [][(isActive \/ isConnecting)
        => \A i \in Sess : pc[i] = "none" => (pc'[i] = "none" /\ res'[i] = res[i])]_vars

\* C8: a transport error or close of an invocation that is connecting or open leaves the
\* component neither active nor connecting, the invocation's microphone stream stopped
\* and capture nodes disconnected, the set of sources empty and the session handle null
C8_ErrorTearsDown ==
    [][\A i \in Sess :
          (pc[i] \in {"connecting", "open"} /\ pc'[i] \in {"errored", "closed"})
          => /\ ~isActive' /\ ~isConnecting'
             /\ res'[i].stream # "live"
             /\ res'[i].source # "live" /\ res'[i].processor # "live"
             /\ sources' = {}
             /\ sessionRef' = 0]_vars

\* C9: after the user stopped an open session, no inbound message of that session
\* invokes onCommand / onApplyAll / onAudit, puts a tool response on the wire or
\* begins to schedule an audio payload
C9_StopClosesTransport ==
    [][/\ Len(cmds') > Len(cmds) => cmds'[Len(cmds')].sess \notin explicitStops
       /\ Len(sent') > Len(sent) => sent'[Len(sent')].sess \notin explicitStops
       /\ (Len(chunks') > Len(chunks) /\ chunks'[Len(chunks')].st = "decoding")
          => chunks'[Len(chunks')].sess \notin explicitStops]_vars

\* C10: an invocation whose getUserMedia failed is never active, is not left connecting,
\* has no transport, and the promise startSession returned is rejected (the failure
\* reaches the caller, it is not only logged)
C10_MicFailureSurfaced ==
    \A i \in Sess :
        pc[i] = "micFailed"
        => /\ res[i].stream = "none" /\ res[i].source = "none"
           /\ (nStarted = i => ~isActive /\ ~isConnecting)
           /\ startOutcome[i] = "rejected"

\* C11: whenever the component is neither active nor connecting, no microphone stream,
\* capture node or audio context acquired by an earlier startSession is still unreleased
C11_NothingLeaked ==
    (~isActive /\ ~isConnecting)
    => \A i \in Sess :
          /\ res[i].inCtx # "live" /\ res[i].outCtx # "live"
          /\ res[i].stream # "live"
          /\ res[i].source # "live" /\ res[i].processor # "live"

\* the announcements on the wire for completion n
Announcements(log, n) ==
    {k \in 1..Len(log) : Len(log[k].rs) = 1 /\ log[k].rs[1].id = <<"batch-complete", n>>}

\* C12: an announcement is sent only in the step in which its batch completes, and only
\* once: no completion is announced twice, and a completion that found no session is not
\* announced later (after a session started, after the language changed)
C12_AnnounceAtMostOnce ==
    [][\A n \in 1..MaxBatches :
          /\ Cardinality(Announcements(sent', n)) <= 1
          /\ Announcements(sent', n) # Announcements(sent, n)
             => (batchCompleteTrigger = n - 1 /\ batchCompleteTrigger' = n)]_vars

\* the state reports and the microphone chunks of invocation i on the wire
StateReports(log, i) ==
    {k \in 1..Len(log) :
        /\ log[k].sess = i /\ Len(log[k].rs) = 1
        /\ log[k].rs[1].name = "system_state_report"}

MicChunks(log, i) == {k \in 1..Len(log) : log[k].sess = i /\ log[k].kind = "realtimeInput"}

\* C13: the open event makes the component active and puts exactly one initial state
\* report of the invocation on the wire; no invocation ever has more than one, and every
\* microphone chunk of an invocation comes after its state report
C13_ReportBeforeAudio ==
    [][\A i \in Sess :
          /\ (pc[i] = "connecting" /\ pc'[i] = "open")
             => /\ isActive'
                /\ Len(sent') = Len(sent) + 1
                /\ StateReports(sent', i) = {Len(sent')}
          /\ Cardinality(StateReports(sent', i)) <= 1
          /\ \A k \in MicChunks(sent', i) : \E j \in StateReports(sent', i) : j < k]_vars

\* C13, the case: an invocation has sent its state report and then a microphone chunk
C13_Witness ==
    \E i \in Sess : /\ StateReports(sent, i) # {}
                    /\ MicChunks(sent, i) # {}
                    /\ isActive

\* C14: a buffer delivered by the capture node of an open invocation puts exactly one chunk
\* on the wire, holding that buffer and tagged with the sample rate of the input context;
\* the chunks of an invocation are on the wire in capture order
C14_ChunkPerFrame ==
    [][\A i \in Sess :
          /\ (frames'[i] # frames[i] /\ pc[i] = "open")
             => /\ frames'[i] = frames[i] + 1
                /\ Len(sent') = Len(sent) + 1
                /\ sent'[Len(sent')].sess = i
                /\ sent'[Len(sent')].kind = "realtimeInput"
                /\ sent'[Len(sent')].media.data = CreateBlob(InputBuffer(frames'[i]), 0).data
                /\ DecodeAudioData(Decode(sent'[Len(sent')].media.data))
                       = InputBuffer(frames'[i])
                /\ sent'[Len(sent')].media.mimeType = <<"audio/pcm", deviceRate>>
          /\ \A j \in MicChunks(sent', i), k \in MicChunks(sent', i) :
                j < k => DecodeAudioData(Decode(sent'[j].media.data))[1]
                            < DecodeAudioData(Decode(sent'[k].media.data))[1]]_vars

\* C14, the case: MaxFrames buffers were captured on 48000 Hz hardware and as many chunks
\* tagged rate=48000 are on the wire
C14_Witness ==
    \E i \in Sess :
        /\ frames[i] = MaxFrames
        /\ Cardinality(MicChunks(sent, i)) = MaxFrames
        /\ \A k \in MicChunks(sent, i) : sent[k].media.mimeType = <<"audio/pcm", 48000>>

\* C15: a call whose name matches no known tool reaches no prop and has exactly one
\* response on the wire, with its id, its name and the default result {ok: true}
C15_UnknownToolAnswered ==
    \A n \in 1..Len(calls) :
        calls[n].name = "unknown_tool"
        => /\ \A k \in 1..Len(cmds) : cmds[k].id # calls[n].id
           /\ Cardinality(Answers(calls[n].id)) = 1
           /\ \A p \in Answers(calls[n].id) :
                 /\ sent[p[1]].rs[p[2]].name = "unknown_tool"
                 /\ sent[p[1]].rs[p[2]].result = [ok |-> TRUE, message |-> <<"none">>]

\* C16: the failure of a decode starts nothing for its payload, leaves the component
\* active, the set of sources and everything the audio path reads (nextStartTime, the
\* stopped flag, the output context) as they were, and so leaves later payloads to be
\* scheduled as before
C16_DecodeFailureIsLocal ==
    [][\A k \in 1..Len(chunks) :
          (chunks[k].st = "decoding" /\ ~chunks[k].ok /\ chunks'[k].st # "decoding")
          => /\ chunks'[k].st = "failed"
             /\ k \notin sources'
             /\ sources' = sources
             /\ isActive' /\ pc' = pc
             /\ nextStartTime' = nextStartTime
             /\ isStopped' = isStopped
             /\ audioContextRef' = audioContextRef
             /\ \A j \in 1..Len(chunks) : j # k => chunks'[j] = chunks[j]]_vars

\* C16, the case: a payload failed to decode while a source was in the set, and a valid
\* payload that arrived after it has been started
C16_Witness ==
    \E k \in 1..Len(chunks), j \in sources :
        /\ chunks[k].st = "failed"
        /\ j > k
        /\ chunks[j].st = "playing"
        /\ isActive

\* C17: every sample of a decoded array is within one step of the 16-bit quantization of
\* the sample that was encoded, the samples 1.0 and -1.0 included
C17_RoundTrip ==
    pcmStage = "decoded"
    => /\ Len(channelData) = Len(inputData)
       /\ \A k \in 1..Len(inputData) :
             /\ channelData[k] - inputData[k] <= QuantStep
             /\ inputData[k] - channelData[k] <= QuantStep

\* C18: a received scroll_viewport call with direction d has exactly one invocation of
\* onCommand, made with {scrollAction: d}, and exactly one response on the wire with its id
C18_ScrollOnce ==
    \A n \in 1..Len(calls) :
        calls[n].name = "scroll_viewport"
        => /\ Cardinality({k \in 1..Len(cmds) : cmds[k].id = calls[n].id}) = 1
           /\ \A k \in 1..Len(cmds) :
                 cmds[k].id = calls[n].id
                 => cmds[k].fn = "onCommand" /\ cmds[k].cmd = [scrollAction |-> calls[n].arg]
           /\ Cardinality(Answers(calls[n].id)) = 1

\* C19: the report sent in answer to a get_system_state call holds the interface language
\* and the length of the image queue of the render that is current when the call is handled
C19_ReportIsCurrent ==
    [][\A p \in NewResponses :
          sent'[p[1]].rs[p[2]].name = "get_system_state"
          => sent'[p[1]].rs[p[2]].result
                = [ok |-> TRUE, message |-> <<"state", currentLanguage, images>>]]_vars

\* the part of the teardown a call belongs to: 1 the microphone capture, 2 the playback and
\* the output device, 3 the transport
TeardownPhase(call) ==
    IF call \in {"processor.disconnect", "source.disconnect", "track.stop",
                 "inputAudioContext.close"} THEN 1
    ELSE IF call \in {"source.stop", "sources.clear", "audioContext.close"} THEN 2
    ELSE 3

\* C20: the calls of a teardown come in the order capture, playback, transport: every
\* capture call precedes every playback call, the playback is flushed before the output
\* context is closed, and when a session handle was held the transport is closed last
C20_TeardownOrder ==
    [][(tdRun' >= 1 /\ tdRun' # tdRun)
        => /\ \A a \in 1..Len(tdTrace'), b \in 1..Len(tdTrace') :
                 a < b => TeardownPhase(tdTrace'[a]) <= TeardownPhase(tdTrace'[b])
           /\ \A a \in 1..Len(tdTrace'), b \in 1..Len(tdTrace') :
                 (tdTrace'[a] = "audioContext.close" /\ TeardownPhase(tdTrace'[b]) = 2)
                 => b <= a
           /\ sessionRef # 0
              => /\ Len(tdTrace') > 0
                 /\ TeardownPhase(tdTrace'[Len(tdTrace')]) = 3]_vars

\* the Int16 elements a blob holds
BlobInt16(blob) == Int16View(Decode(blob.data))

\* C21: the encoding saturates: the sample 1.0 is encoded as 32767, and no sample of [-1, 1]
\* is encoded as an integer of the opposite sign
C21_EncodingSaturates ==
    pcmStage \in {"encoded", "decoded"}
    => /\ Len(BlobInt16(pcmBlob)) = Len(inputData)
       /\ \A k \in 1..Len(inputData) :
             /\ inputData[k] = Unit => BlobInt16(pcmBlob)[k] = Int16Scale - 1
             /\ inputData[k] > 0 => BlobInt16(pcmBlob)[k] >= 0
             /\ inputData[k] < 0 => BlobInt16(pcmBlob)[k] <= 0

\* the invocations of a prop made by a step
NewCmds == {a \in 1..Len(cmds') : a > Len(cmds)}

\* C22: the step that handles a batch invokes the props in the order of the calls of the
\* batch, sends at most one message, and the responses of that message are in the order of
\* the calls they answer
C22_BatchInOrder ==
    [][NewCalls # {}
        => /\ \A a \in NewCmds : \E n \in NewCalls : calls'[n].id = cmds'[a].id
           /\ \A a \in NewCmds, b \in NewCmds : a < b => cmds'[a].id[2] < cmds'[b].id[2]
           /\ Len(sent') <= Len(sent) + 1
           /\ \A p \in NewResponses : \E n \in NewCalls : calls'[n].id = sent'[p[1]].rs[p[2]].id
           /\ \A p \in NewResponses, q \in NewResponses :
                 p[2] < q[2] => sent'[p[1]].rs[p[2]].id[2] < sent'[q[1]].rs[q[2]].id[2]]_vars

\* C22, the case: a batch of two calls had its two handlers invoked and its two responses
\* sent in one message
C22_Witness ==
    \E k \in 1..Len(sent) :
        /\ Len(sent[k].rs) = 2 /\ Len(cmds) = 2
        /\ sent[k].rs[1].id = CallId(1) /\ sent[k].rs[2].id = CallId(2)
        /\ cmds[1].id = CallId(1) /\ cmds[2].id = CallId(2)
        /\ cmds[1].fn # cmds[2].fn

\* the acknowledgements of sendVisualContext among the messages a step sends
NewAcks ==
    {k \in (Len(sent) + 1)..Len(sent') :
        Len(sent'[k].rs) = 1 /\ sent'[k].rs[1].id = VisualAckId}

\* C23: the message a step sends for a batch holds no response for a
\* request_visual_context call of the batch; and when the acknowledgement of such a call
\* is sent, the queue as it was when the call was handled has had its first images (all
\* of them, or VisualBatchMax if it was longer) sent as frames, and the acknowledgement is
\* the last message of its step
C23_AckAfterFrames ==
    [][/\ NewCalls # {}
          => /\ NewAcks = {}
             /\ \A p \in NewResponses, n \in NewCalls :
                   sent'[p[1]].rs[p[2]].id = calls'[n].id
                   => calls'[n].name # "request_visual_context"
       /\ NewAcks # {}
          => /\ NewAcks = {Len(sent')}
             /\ \E j \in 1..Len(vtasks) :
                   /\ vtasks' = RemoveAt(vtasks, j)
                   /\ vtasks[j].frames + (Len(sent') - Len(sent) - 1)
                         = Min(vtasks[j].queue, VisualBatchMax)]_vars

\* C24: the step that handles a stop_speaking call stops every source of the set, leaves
\* the set empty and nextStartTime at 0; and the first payload started after it starts no
\* later than the output clock, before the end the cancelled queue had when that end was
\* still ahead of the clock
C24_FlushRestartsSchedule ==
    [][/\ (\E n \in NewCalls : calls'[n].name = "stop_speaking")
          => /\ sources' = {}
             /\ nextStartTime' = 0
             /\ cancelledEnd' = nextStartTime
             /\ \A k \in sources : chunks'[k].st = "stopped"
       /\ \A k \in 1..Len(chunks) :
             (/\ chunks[k].st = "decoding" /\ chunks'[k].st = "playing"
              /\ lastEnd = 0
              /\ \E n \in 1..Len(calls) : calls[n].name = "stop_speaking")
             => /\ chunks'[k].start <= now
                /\ cancelledEnd > now => chunks'[k].start < cancelledEnd]_vars

\* C24, the case: a flush stopped a source whose queue ended ahead of the clock, and the
\* first payload started since then plays from a time that is not after the clock
C24_Witness ==
    \E j \in 1..Len(chunks), k \in sources :
        /\ chunks[j].st = "stopped"
        /\ cancelledEnd > now
        /\ chunks[k].st = "playing"
        /\ lastEnd = chunks[k].start + chunks[k].dur
        /\ chunks[k].start <= now
        /\ chunks[k].start < cancelledEnd

\* C25: a batch of trigger_native_generation calls handled while the Composite Generator
\* is open adds no placeholder to the queue and does not raise the native-generating flag
C25_NoGenerationUnderComposite ==
    [][(/\ NewCalls # {}
        /\ \A n \in NewCalls : calls'[n].name = "trigger_native_generation"
        /\ isCompositeModalOpen)
        => /\ queue' = queue
           /\ pendingNative' = pendingNative
           /\ isGeneratingNative' = isGeneratingNative]_vars

\* C26: a transport callback (close or error) of a session that stopSession has
\* already stopped, arriving after a later session was started, changes neither the
\* Active/Connecting flags, nor the shared refs, nor any resource of the later session.
C26_StaleCallbackIsHarmless ==
    [][\A i \in Sess :
          (/\ i \in explicitStops
           /\ nStarted > i
           /\ pc'[i] # pc[i]
           /\ pc'[i] \in {"errored", "closed"})
          => /\ <<isActive, isConnecting>>' = <<isActive, isConnecting>>
             /\ refVars' = refVars
             /\ \A j \in Sess : j > i => res'[j] = res[j]]_vars

\* C27: the audio block set by a stop_speaking call stays in force until that call's
\* own reset timer fires: while the timer of the most recent stop_speaking is pending
\* (timers of equal delay fire in arming order, so it is pending as long as any is),
\* inbound audio is blocked.
C27_BlockOutlivesEarlierTimer ==
    stopTimers > 0 => isStopped

\* C28: the step that handles a batch of one perform_item_action call with target index
\* k removes the image at position k of the queue as it is when the call is handled,
\* whatever was uploaded or removed since the session started, and changes nothing when
\* k is outside 1..length of that queue.
C28_ItemByCurrentPosition ==
    [][\A n \in NewCalls :
          (Cardinality(NewCalls) = 1 /\ calls'[n].name = "perform_item_action")
          => LET k == ParseInt(calls'[n].arg) IN
             queue' = IF k \in 1..Len(queue) THEN Without(queue, queue[k]) ELSE queue]_vars

\* C29: whenever the 'executing' indicator is set (line 540, at the start of an inbound
\* tool-call batch), it is eventually cleared, also when a handler of the batch throws.
C29_ExecutingEventuallyCleared ==
    isExecuting ~> ~isExecuting

\* C30: the component is never Active and Connecting at once, and whenever it is Active
\* the session handle (sessionRef) is set.
C30_FlagsConsistent ==
    /\ ~(isActive /\ isConnecting)
    /\ isActive => sessionRef # 0
====
